---- MODULE Spec2Model ----
(***************************************************************************)
(* Verification model of the vibecraft-framework core:                     *)
(*   - the module registry (modes/modular/module_registry.py),             *)
(*   - the dependency analyzer (modes/modular/dependency_analyzer.py),     *)
(*   - the manifest phase tracker (context_manager.py),                    *)
(*   - the skill runner and its snapshots (runner.py, rollback.py).        *)
(*                                                                         *)
(* Strings the code takes apart (completion markers) are modelled as the   *)
(* sequence of their "_"-separated segments, so that startswith/split are  *)
(* computed and not assumed.                                               *)
(***************************************************************************)
EXTENDS Integers, Sequences, FiniteSets, TLC

VARIABLES
    file,       \* modules-registry.json: the "modules" list on disk
    cache,      \* ModuleRegistry._cache: [loaded, modules]; loaded = FALSE is None
    analyzer,   \* the DependencyAnalyzer instance: [built, graph, modules]
    result,     \* outcome of the last registry / analyzer call
    manifest,   \* .vibecraft/manifest.json
    context_md, \* docs/context.md: the manifest it was last rendered from
    cli,        \* the running `vibecraft integrate` command and what it did
    peer,       \* _cache of a second ModuleRegistry on the same file
    run,        \* the SkillRunner.run call in progress: [pc, skill, phase, ...]
    snapshots   \* .vibecraft/snapshots: the manifest.json each one holds

vars == <<file, cache, analyzer, result, manifest, context_md, cli,
          peer, run, snapshots>>

depVars == <<file, cache, analyzer, result>>
ctxVars == <<manifest, context_md>>
cliVars == <<cli>>
peerVars == <<peer>>
runVars == <<run, snapshots>>

Range(s) == {s[i] : i \in DOMAIN s}

\* ---------------------------------------------------------------------
\* Bounds of the model
\* ---------------------------------------------------------------------

\* total number of dependency entries over all records of the registry
MaxEdges == 3

\* names a module record may carry
ModuleNames == {"database", "auth", "api"}

\* names a dependencies list may mention; "missing" never names a module
DepNames == ModuleNames \cup {"missing"}

\* duplicate-free lists over S of length at most n
ListsUpTo(S, n) ==
    {l \in UNION {[1..k -> S] : k \in 0..n} :
        \A i, j \in DOMAIN l : i # j => l[i] # l[j]}

RECURSIVE SumLen(_, _)
SumLen(mods, i) ==
    IF i > Len(mods) THEN 0
    ELSE Len(mods[i].dependencies) + SumLen(mods, i + 1)

\* ---------------------------------------------------------------------
\* ModuleRegistry
\* ---------------------------------------------------------------------

\* _read without the cache: the file's list on every read
Read_NoCache == file

\* ModuleRegistry._read: the cached list, or the file's list on first read
Read == IF cache.loaded THEN cache.modules ELSE file

Loaded(mods) == [loaded |-> TRUE, modules |-> mods]

\* ModuleRegistry.has_module / get_by_name
has_module(mods, name) == \E i \in DOMAIN mods : mods[i].name = name

\* values of datetime.now() / of a created_at given to Module(...)
Times == {"t1", "t2"}

\* Module(name=..., status=..., dependencies=..., created_at=...): the other
\* fields take the defaults of the class
Module(name, status, dependencies, created_at) ==
    [name |-> name, description |-> "", path |-> <<>>, status |-> status,
     dependencies |-> dependencies, exports |-> <<>>,
     created_at |-> created_at, phases_completed |-> <<>>,
     metadata |-> "None"]

\* ModuleRegistry._module_to_dict; a path is the sequence of its "/" parts
module_to_dict(module) ==
    [name |-> module.name,
     path |-> IF module.path = <<>> THEN <<"modules", module.name>>
              ELSE module.path,
     status |-> module.status,
     description |-> module.description,
     dependencies |-> module.dependencies,
     exports |-> module.exports,
     phases_completed |-> module.phases_completed,
     created_at |-> module.created_at,
     metadata |-> module.metadata]

NoResult ==
    [op |-> "none", raised |-> "none", cycle |-> FALSE, order |-> <<>>,
     message |-> <<>>, value |-> <<>>, found |-> FALSE, name |-> ""]

\* the outcome of a registry call that named a module
Called(op, name) == [NoResult EXCEPT !.op = op, !.name = name]

\* _write with the file left as it was
_write_CacheOnly(data) ==
    /\ cache' = Loaded(data)
    /\ file' = file

\* ModuleRegistry._write: the cache and the file both take data
_write(data) ==
    /\ cache' = Loaded(data)
    /\ file' = data

\* a call that only read: the cache is loaded, the file is untouched
ReadOnly ==
    /\ cache' = Loaded(Read)
    /\ file' = file

\* add_module(module): no-op when the name is already recorded, else
\* append and write through
add_module(module) ==
    /\ IF has_module(Read, module.name)
       THEN ReadOnly
       ELSE _write(Append(Read, module_to_dict(module)))
    /\ UNCHANGED <<analyzer>>
    /\ UNCHANGED <<ctxVars, cliVars, peerVars, runVars>>

\* ---------------------------------------------------------------------
\* ModuleRegistry: update, remove, reads, cache invalidation
\* ---------------------------------------------------------------------

\* cap on the number of records of the registry
MaxModules == 2

\* module names used with the registry operations
RegNames == {"auth", "api"}

Statuses == {"planned", "completed"}

\* every value a caller can give each field
FieldValues ==
    [name : RegNames, status : Statuses]

\* the keyword arguments that give the fields ks their values in full
Given(full, ks) == [k \in ks |-> full[k]]

\* keyword arguments of Module(...): name, and any of the other fields
ModuleKwargs ==
    {Given(full, ks \cup {"name"}) :
        full \in FieldValues, ks \in SUBSET {"status"}}

\* Module(**kw) constructed at time now: absent fields take their defaults,
\* created_at the default_factory datetime.now
NewModule(kw, now) ==
    LET base == Module(kw.name, "planned", <<>>, now)
    IN  [f \in DOMAIN base |-> IF f \in DOMAIN kw THEN kw[f] ELSE base[f]]

\* keyword arguments of update_module(name, **kwargs)
UpdateKwargs ==
    {Given(full, ks) :
        full \in FieldValues,
        ks \in SUBSET {"name", "status"}}

\* index of the first record called name (0 when there is none)
RECURSIVE FindIndex(_, _, _)
FindIndex(mods, name, i) ==
    IF i > Len(mods) THEN 0
    ELSE IF mods[i].name = name THEN i
    ELSE FindIndex(mods, name, i + 1)

NotFoundMessage(name) == <<"Module '", name, "' not found">>

NotFound(op, name) ==
    [Called(op, name) EXCEPT !.raised = "ModuleError",
                             !.message = NotFoundMessage(name)]

\* ApplyUpdates starting again from a default record
ApplyUpdates_Replace(rec, updates) ==
    LET base == module_to_dict(Module(rec.name, "planned", <<>>, rec.created_at))
    IN  [f \in DOMAIN base |-> IF f \in DOMAIN updates THEN updates[f] ELSE base[f]]

\* update_module, legacy style, the loop body: data["modules"][i][key] = value
ApplyUpdates(rec, updates) ==
    [f \in DOMAIN rec |-> IF f \in DOMAIN updates THEN updates[f] ELSE rec[f]]

\* update_module(module), Module style
update_module_object(module) ==
    LET i == FindIndex(Read, module.name, 1)
    IN  /\ IF i = 0
           THEN /\ ReadOnly
                /\ result' = NotFound("update_module", module.name)
           ELSE /\ _write([Read EXCEPT ![i] = module_to_dict(module)])
                /\ result' = Called("update_module", module.name)
        /\ UNCHANGED <<analyzer>>
        /\ UNCHANGED <<ctxVars, cliVars, peerVars, runVars>>

\* update_module(name, **updates), legacy style
update_module_kwargs(name, updates) ==
    LET i == FindIndex(Read, name, 1)
    IN  /\ IF i = 0
           THEN /\ ReadOnly
                /\ result' = NotFound("update_module", name)
           ELSE /\ _write([Read EXCEPT ![i] = ApplyUpdates(@, updates)])
                /\ result' = Called("update_module", name)
        /\ UNCHANGED <<analyzer>>
        /\ UNCHANGED <<ctxVars, cliVars, peerVars, runVars>>

\* the list comprehension of remove_module
RECURSIVE WithoutName(_, _)
WithoutName(mods, name) ==
    IF mods = <<>> THEN <<>>
    ELSE IF Head(mods).name = name THEN WithoutName(Tail(mods), name)
    ELSE <<Head(mods)>> \o WithoutName(Tail(mods), name)

\* remove_module without the existence check
remove_module_NoCheck(name) ==
    /\ _write(WithoutName(Read, name))
    /\ result' = Called("remove_module", name)
    /\ UNCHANGED <<analyzer>>
    /\ UNCHANGED <<ctxVars, cliVars, peerVars, runVars>>

\* remove_module(name)
remove_module(name) ==
    /\ IF ~has_module(Read, name)
       THEN /\ ReadOnly
            /\ result' = NotFound("remove_module", name)
       ELSE /\ _write(WithoutName(Read, name))
            /\ result' = Called("remove_module", name)
    /\ UNCHANGED <<analyzer>>
    /\ UNCHANGED <<ctxVars, cliVars, peerVars, runVars>>

\* ModuleRegistry._dict_to_module on a record that carries every field
dict_to_module(data) ==
    [name |-> data.name, description |-> data.description,
     path |-> data.path, status |-> data.status,
     dependencies |-> data.dependencies, exports |-> data.exports,
     created_at |-> data.created_at,
     phases_completed |-> data.phases_completed,
     metadata |-> data.metadata]

\* get_all()
get_all ==
    /\ ReadOnly
    /\ result' = [NoResult EXCEPT !.op = "get_all", !.value = Read]
    /\ UNCHANGED <<analyzer>>
    /\ UNCHANGED <<ctxVars, cliVars, peerVars, runVars>>

\* Module.validate_status
AllowedStatuses == {"planned", "in_progress", "completed", "blocked"}

\* phases_completed: List[int], one element: a decimal numeral validates,
\* any other string does not
DecimalDigits == {"0", "1", "2", "3", "4", "5", "6", "7", "8", "9"}
ValidatesAsInt(e) == Len(e) = 1 /\ e[1] \in DecimalDigits

\* Module(...) accepts the fields _dict_to_module hands it
Validates(data) ==
    /\ data.status \in AllowedStatuses
    /\ \A e \in Range(data.phases_completed) : ValidatesAsInt(e)

\* get_all_modules(): ValidationError from the first record Module rejects
get_all_modules ==
    /\ ReadOnly
    /\ result' =
          IF \A i \in DOMAIN Read : Validates(Read[i])
          THEN [NoResult EXCEPT !.op = "get_all_modules",
                   !.value = [i \in DOMAIN Read |-> dict_to_module(Read[i])]]
          ELSE [NoResult EXCEPT !.op = "get_all_modules",
                                !.raised = "ValidationError"]
    /\ UNCHANGED <<analyzer>>
    /\ UNCHANGED <<ctxVars, cliVars, peerVars, runVars>>

\* get_by_name(name): the first record called name, or None
get_by_name(name) ==
    LET i == FindIndex(Read, name, 1)
    IN  /\ ReadOnly
        /\ result' = [NoResult EXCEPT !.op = "get_by_name", !.name = name,
                         !.found = (i # 0),
                         !.value = IF i = 0 THEN <<>> ELSE <<Read[i]>>]
        /\ UNCHANGED <<analyzer>>
        /\ UNCHANGED <<ctxVars, cliVars, peerVars, runVars>>

\* has_module(name), called from outside
has_module_call(name) ==
    /\ ReadOnly
    /\ result' = [NoResult EXCEPT !.op = "has_module", !.name = name,
                                  !.found = has_module(Read, name)]
    /\ UNCHANGED <<analyzer>>
    /\ UNCHANGED <<ctxVars, cliVars, peerVars, runVars>>

\* invalidate_cache()
invalidate_cache ==
    /\ cache' = [loaded |-> FALSE, modules |-> <<>>]
    /\ result' = [NoResult EXCEPT !.op = "invalidate_cache"]
    /\ UNCHANGED <<file, analyzer>>
    /\ UNCHANGED <<ctxVars, cliVars, peerVars, runVars>>

\* the registry file rewritten from outside the instance: a record is
\* appended for a name the file does not have, or the last one is dropped
external_write(data) ==
    /\ file' = data
    /\ result' = [NoResult EXCEPT !.op = "external_write"]
    /\ UNCHANGED <<cache, analyzer>>
    /\ UNCHANGED <<ctxVars, cliVars, peerVars, runVars>>

ExternalFiles ==
    {Append(file, module_to_dict(Module(n, "planned", <<>>, "t1"))) :
        n \in {m \in RegNames : ~has_module(file, m) /\ Len(file) < MaxModules}}
    \cup (IF file = <<>> THEN {} ELSE {SubSeq(file, 1, Len(file) - 1)})

\* the actions of the registry
AddModuleObject ==
    \E kw \in ModuleKwargs, now \in Times :
        /\ has_module(Read, kw.name) \/ Len(Read) < MaxModules
        /\ add_module(NewModule(kw, now))
        /\ result' = Called("add_module", kw.name)

UpdateModuleObject ==
    \E kw \in ModuleKwargs, now \in Times : update_module_object(NewModule(kw, now))

UpdateModuleKwargs ==
    \E name \in RegNames, updates \in UpdateKwargs :
        update_module_kwargs(name, updates)

RemoveModule == \E name \in RegNames : remove_module(name)

AddDefaultModule ==
    \E name \in RegNames :
        /\ has_module(Read, name) \/ Len(Read) < MaxModules
        /\ add_module(Module(name, "planned", <<>>, "t1"))
        /\ result' = Called("add_module", name)

GetAll == get_all

GetAllModules == get_all_modules

GetByName == \E name \in RegNames : get_by_name(name)

HasModule == \E name \in RegNames : has_module_call(name)

InvalidateCache == invalidate_cache

ExternalWrite == \E data \in ExternalFiles : external_write(data)

\* statuses update_module(name, status=...) is called with
StatusArgs == {"in_progress", "active"}

UpdateModuleStatus ==
    \E name \in RegNames, status \in StatusArgs :
        update_module_kwargs(name, [status |-> status])

\* ---------------------------------------------------------------------
\* A second ModuleRegistry instance on the same file
\* ---------------------------------------------------------------------

NoPeer == [loaded |-> FALSE, modules |-> <<>>]

\* _read of the second instance without its cache
PeerRead_NoCache == file

\* _read of the second instance
PeerRead == IF peer.loaded THEN peer.modules ELSE file

\* _write of the second instance
peer_write(data) == /\ peer' = Loaded(data) /\ file' = data

\* get_all() of the second instance
peer_get_all ==
    /\ peer' = Loaded(PeerRead)
    /\ result' = [NoResult EXCEPT !.op = "peer.get_all", !.value = PeerRead]
    /\ UNCHANGED <<file, cache, analyzer>>
    /\ UNCHANGED <<ctxVars, cliVars, runVars>>

\* add_module(module) of the second instance
peer_add_module(module) ==
    /\ IF has_module(PeerRead, module.name)
       THEN /\ peer' = Loaded(PeerRead)
            /\ file' = file
       ELSE peer_write(Append(PeerRead, module_to_dict(module)))
    /\ result' = Called("peer.add_module", module.name)
    /\ UNCHANGED <<cache, analyzer>>
    /\ UNCHANGED <<ctxVars, cliVars, runVars>>

PeerGetAll == peer_get_all

PeerAddModule ==
    \E name \in RegNames :
        /\ has_module(PeerRead, name) \/ Len(PeerRead) < MaxModules
        /\ peer_add_module(Module(name, "planned", <<>>, "t1"))

\* ---------------------------------------------------------------------
\* networkx.DiGraph as _build_graph uses it: nodes in insertion order and,
\* per node, its successors in insertion order
\* ---------------------------------------------------------------------

EmptyGraph == [nodes |-> <<>>, adj |-> <<>>]

NodeSet(G) == Range(G.nodes)

\* DiGraph.add_node
add_node(G, n) ==
    IF n \in NodeSet(G) THEN G
    ELSE [nodes |-> Append(G.nodes, n),
          adj   |-> [m \in NodeSet(G) \cup {n} |->
                        IF m = n THEN <<>> ELSE G.adj[m]]]

\* add_edge drawing the edge only between names that are nodes already
add_edge_KnownEnds(G, u, v) ==
    IF u \notin NodeSet(G) \/ v \notin NodeSet(G) THEN G
    ELSE IF v \in Range(G.adj[u]) THEN G
    ELSE [G EXCEPT !.adj[u] = Append(@, v)]

\* DiGraph.add_edge(u, v): both ends become nodes, the edge is kept once
add_edge(G, u, v) ==
    LET G2 == add_node(add_node(G, u), v)
    IN  IF v \in Range(G2.adj[u]) THEN G2
        ELSE [G2 EXCEPT !.adj[u] = Append(@, v)]

\* _build_graph, first loop: every module name becomes a node
RECURSIVE AddModuleNodes(_, _, _)
AddModuleNodes(G, mods, i) ==
    IF i > Len(mods) THEN G
    ELSE AddModuleNodes(add_node(G, mods[i].name), mods, i + 1)

\* AddDepEdges with the edge drawn dependent -> dependency
RECURSIVE AddDepEdges_Reversed(_, _, _, _)
AddDepEdges_Reversed(G, deps, name, j) ==
    IF j > Len(deps) THEN G
    ELSE AddDepEdges_Reversed(add_edge(G, name, deps[j]), deps, name, j + 1)

\* _build_graph, inner loop: one edge dependency -> dependent per entry
RECURSIVE AddDepEdges(_, _, _, _)
AddDepEdges(G, deps, name, j) ==
    IF j > Len(deps) THEN G
    ELSE AddDepEdges(add_edge(G, deps[j], name), deps, name, j + 1)

\* _build_graph, second loop
RECURSIVE AddModuleEdges(_, _, _)
AddModuleEdges(G, mods, i) ==
    IF i > Len(mods) THEN G
    ELSE AddModuleEdges(AddDepEdges(G, mods[i].dependencies, mods[i].name, 1),
                        mods, i + 1)

_build_graph(mods) == AddModuleEdges(AddModuleNodes(EmptyGraph, mods, 1), mods, 1)

\* ---------------------------------------------------------------------
\* networkx.find_cycle(G): depth-first search from every node in insertion
\* order; an edge whose head is on the active path closes a cycle.
\* active = nodes of the current path, done = nodes fully explored.
\* ---------------------------------------------------------------------

RECURSIVE VisitNode(_, _, _, _)
RECURSIVE VisitEdges(_, _, _, _, _)

VisitEdges(G, n, k, active, done) ==
    IF k > Len(G.adj[n]) THEN [found |-> FALSE, done |-> done \cup {n}]
    ELSE LET head == G.adj[n][k]
         IN  IF head \in done THEN VisitEdges(G, n, k + 1, active, done)
             ELSE IF head \in active THEN [found |-> TRUE, done |-> done]
             ELSE LET sub == VisitNode(G, head, active, done)
                  IN  IF sub.found THEN sub
                      ELSE VisitEdges(G, n, k + 1, active, sub.done)

VisitNode(G, n, active, done) == VisitEdges(G, n, 1, active \cup {n}, done)

RECURSIVE FindCycleFrom(_, _, _)
FindCycleFrom(G, i, explored) ==
    IF i > Len(G.nodes) THEN FALSE      \* raise NetworkXNoCycle
    ELSE IF G.nodes[i] \in explored THEN FindCycleFrom(G, i + 1, explored)
    ELSE LET r == VisitNode(G, G.nodes[i], {}, explored)
         IN  IF r.found THEN TRUE
             ELSE FindCycleFrom(G, i + 1, r.done)

\* find_cycle searching from the first node only
find_cycle_FirstSourceOnly(G) ==
    IF G.nodes = <<>> THEN FALSE
    ELSE VisitNode(G, G.nodes[1], {}, {}).found

find_cycle(G) == FindCycleFrom(G, 1, {})

\* DependencyAnalyzer.has_cycle: True when find_cycle returns, False when
\* it raises NetworkXNoCycle
has_cycle(G) == find_cycle(G)

\* ---------------------------------------------------------------------
\* networkx.topological_sort(G): Kahn's algorithm by generations
\* ---------------------------------------------------------------------

in_degree(G, v) == Cardinality({u \in NodeSet(G) : v \in Range(G.adj[u])})

\* one node of the current generation: decrement each child, collect the
\* children that reach zero
RECURSIVE RelaxChildren(_, _, _, _, _)
RelaxChildren(G, n, k, indeg, zero) ==
    IF k > Len(G.adj[n]) THEN [indeg |-> indeg, zero |-> zero]
    ELSE LET child == G.adj[n][k]
             d     == indeg[child] - 1
         IN  IF d = 0
             THEN RelaxChildren(G, n, k + 1,
                                [c \in DOMAIN indeg \ {child} |-> indeg[c]],
                                Append(zero, child))
             ELSE RelaxChildren(G, n, k + 1,
                                [indeg EXCEPT ![child] = d], zero)

RECURSIVE RelaxGeneration(_, _, _, _, _)
RelaxGeneration(G, gen, i, indeg, zero) ==
    IF i > Len(gen) THEN [indeg |-> indeg, zero |-> zero]
    ELSE LET r == RelaxChildren(G, gen[i], 1, indeg, zero)
         IN  RelaxGeneration(G, gen, i + 1, r.indeg, r.zero)

RECURSIVE Generations(_, _, _, _)
Generations(G, zero, indeg, out) ==
    IF zero = <<>> THEN [order |-> out, left |-> DOMAIN indeg]
    ELSE LET r == RelaxGeneration(G, zero, 1, indeg, <<>>)
         IN  Generations(G, r.zero, r.indeg, out \o zero)

\* [order, left]: left # {} is where networkx raises NetworkXUnfeasible
topological_sort(G) ==
    LET IsZero(v) == in_degree(G, v) = 0
        indeg == [v \in {w \in NodeSet(G) : in_degree(G, w) > 0} |->
                      in_degree(G, v)]
    IN  Generations(G, SelectSeq(G.nodes, IsZero), indeg, <<>>)

\* ---------------------------------------------------------------------
\* DependencyAnalyzer
\* ---------------------------------------------------------------------

NoAnalyzer == [built |-> FALSE, graph |-> EmptyGraph, modules |-> <<>>]

\* DependencyAnalyzer(registry): the graph is built once, from the modules
\* the registry returns at construction; "modules" records that list
NewAnalyzer ==
    /\ analyzer' = [built |-> TRUE, graph |-> _build_graph(Read), modules |-> Read]
    /\ cache' = Loaded(Read)
    /\ result' = [NoResult EXCEPT !.op = "init"]
    /\ UNCHANGED <<file>>
    /\ UNCHANGED <<ctxVars, cliVars, peerVars, runVars>>

\* the message of MissingDependencyError, as the pieces of the f-string
MissingMessage(name, dep) ==
    <<"Module '", name, "' depends on non-existent module '", dep, "'">>

\* validate_dependencies, the existence loops: the first (module, dep) in
\* iteration order whose dep is not a module name
RECURSIVE FirstMissingDep(_, _, _, _)
FirstMissingDep(mods, names, i, j) ==
    IF i > Len(mods) THEN [found |-> FALSE, name |-> "", dep |-> ""]
    ELSE IF j > Len(mods[i].dependencies)
         THEN FirstMissingDep(mods, names, i + 1, 1)
    ELSE IF mods[i].dependencies[j] \notin names
         THEN [found |-> TRUE, name |-> mods[i].name,
               dep |-> mods[i].dependencies[j]]
    ELSE FirstMissingDep(mods, names, i, j + 1)

\* validate_dependencies looking the names up in the graph's nodes
validate_dependencies_GraphNames(mods, G) ==
    LET miss == FirstMissingDep(mods, NodeSet(G), 1, 1)
    IN  IF miss.found
        THEN [NoResult EXCEPT !.op = "validate_dependencies",
                              !.raised = "MissingDependencyError",
                              !.message = MissingMessage(miss.name, miss.dep)]
        ELSE IF has_cycle(G)
        THEN [NoResult EXCEPT !.op = "validate_dependencies",
                              !.raised = "CyclicDependencyError",
                              !.message = <<"Circular dependencies detected">>]
        ELSE [NoResult EXCEPT !.op = "validate_dependencies"]

\* validate_dependencies with the cycle check ahead of the existence check
validate_dependencies_CycleFirst(mods, G) ==
    LET module_names == {mods[i].name : i \in DOMAIN mods}
        miss == FirstMissingDep(mods, module_names, 1, 1)
    IN  IF has_cycle(G)
        THEN [NoResult EXCEPT !.op = "validate_dependencies",
                              !.raised = "CyclicDependencyError",
                              !.message = <<"Circular dependencies detected">>]
        ELSE IF miss.found
        THEN [NoResult EXCEPT !.op = "validate_dependencies",
                              !.raised = "MissingDependencyError",
                              !.message = MissingMessage(miss.name, miss.dep)]
        ELSE [NoResult EXCEPT !.op = "validate_dependencies"]

\* validate_dependencies without the cycle check
validate_dependencies_NoCycleCheck(mods, G) ==
    LET module_names == {mods[i].name : i \in DOMAIN mods}
        miss == FirstMissingDep(mods, module_names, 1, 1)
    IN  IF miss.found
        THEN [NoResult EXCEPT !.op = "validate_dependencies",
                              !.raised = "MissingDependencyError",
                              !.message = MissingMessage(miss.name, miss.dep)]
        ELSE [NoResult EXCEPT !.op = "validate_dependencies"]

\* validate_dependencies(): modules are read from the registry at the call,
\* the cycle check runs on the graph built at construction
validate_dependencies(mods, G) ==
    LET module_names == {mods[i].name : i \in DOMAIN mods}
        miss == FirstMissingDep(mods, module_names, 1, 1)
    IN  IF miss.found
        THEN [NoResult EXCEPT !.op = "validate_dependencies",
                              !.raised = "MissingDependencyError",
                              !.message = MissingMessage(miss.name, miss.dep)]
        ELSE IF has_cycle(G)
        THEN [NoResult EXCEPT !.op = "validate_dependencies",
                              !.raised = "CyclicDependencyError",
                              !.message = <<"Circular dependencies detected">>]
        ELSE [NoResult EXCEPT !.op = "validate_dependencies"]

\* get_build_order without the has_cycle guard
get_build_order_NoCycleCheck(G) ==
    LET t == topological_sort(G)
    IN  IF t.left # {}
        THEN [NoResult EXCEPT !.op = "get_build_order",
                              !.raised = "NetworkXUnfeasible"]
        ELSE [NoResult EXCEPT !.op = "get_build_order",
                              !.order = t.order]

\* get_build_order()
get_build_order(G) ==
    IF has_cycle(G)
    THEN [NoResult EXCEPT !.op = "get_build_order",
                          !.raised = "CyclicDependencyError",
                          !.message = <<"Cannot determine build order: circular dependencies detected">>]
    ELSE LET t == topological_sort(G)
         IN  IF t.left # {}
             THEN [NoResult EXCEPT !.op = "get_build_order",
                                   !.raised = "NetworkXUnfeasible"]
             ELSE [NoResult EXCEPT !.op = "get_build_order",
                                   !.order = t.order]

ValidateDependencies ==
    /\ analyzer.built
    /\ result' = validate_dependencies(Read, analyzer.graph)
    /\ cache' = Loaded(Read)
    /\ UNCHANGED <<file, analyzer>>
    /\ UNCHANGED <<ctxVars, cliVars, peerVars, runVars>>

HasCycle ==
    /\ analyzer.built
    /\ result' = [NoResult EXCEPT !.op = "has_cycle",
                                  !.cycle = has_cycle(analyzer.graph)]
    /\ UNCHANGED <<file, cache, analyzer>>
    /\ UNCHANGED <<ctxVars, cliVars, peerVars, runVars>>

GetBuildOrder ==
    /\ analyzer.built
    /\ result' = get_build_order(analyzer.graph)
    /\ UNCHANGED <<file, cache, analyzer>>
    /\ UNCHANGED <<ctxVars, cliVars, peerVars, runVars>>

AddModule ==
    \E name \in ModuleNames, deps \in ListsUpTo(DepNames, MaxEdges) :
        /\ SumLen(Read, 1) + Len(deps) <= MaxEdges
        /\ add_module(Module(name, "planned", deps, "t1"))
        /\ result' = [NoResult EXCEPT !.op = "add_module"]

\* ---------------------------------------------------------------------
\* ContextManager: manifest.json and the phase tracker
\* ---------------------------------------------------------------------

\* cap on len(manifest["phases_completed"])
MaxCompleted == 5

\* largest sub-phase number passed as --phase / complete <phase>
MaxPhaseNum == 2

\* largest total_implement_phases a manifest is given
MaxTotal == 2

\* str(n) of a small non-negative integer
Digits == <<"1", "2", "3", "4", "5", "6", "7", "8", "9">>
Str(n) == IF n = 0 THEN "0" ELSE Digits[n]

\* the fixed phase list written at bootstrap
Phases == << <<"research">>, <<"design">>, <<"plan">>, <<"implement">>, <<"review">> >>

\* _SKILL_TO_PHASE
SkillKeys == { <<"research", "skill">>, <<"design", "skill">>,
               <<"plan", "skill">>, <<"review", "skill">> }
_SKILL_TO_PHASE(entry) == <<entry[1]>>

\* skill names complete_skill is called with
SkillNames == SkillKeys \cup { <<"implement">>, <<"design">> }

\* skill names that are run with a --phase number
PhasedSkillNames == { <<"implement">> }

\* the phase argument: absent (None) or an integer
NoPhase == [given |-> FALSE, n |-> 0]
PhaseArgs == {NoPhase} \cup {[given |-> TRUE, n |-> k] : k \in 0..MaxPhaseNum}

\* manifest.get("total_implement_phases", 0)
NoTotal == [set |-> FALSE, value |-> 0]
TotalOf(m) == IF m.total_implement_phases.set
              THEN m.total_implement_phases.value ELSE 0

\* entry.startswith("implement_phase_")
StartsWithImplementPhase(entry) ==
    Len(entry) >= 3 /\ entry[1] = "implement" /\ entry[2] = "phase"

\* entry.split("_")[-1]
LastSegment(entry) == entry[Len(entry)]

\* ScanCompleted without the _SKILL_TO_PHASE branch
RECURSIVE ScanCompleted_NoSkillMap(_, _, _, _)
ScanCompleted_NoSkillMap(entries, i, completed_logical, implement_phases_done) ==
    IF i > Len(entries)
    THEN [completed_logical |-> completed_logical,
          implement_phases_done |-> implement_phases_done]
    ELSE LET entry == entries[i]
         IN  IF StartsWithImplementPhase(entry)
             THEN ScanCompleted_NoSkillMap(entries, i + 1, completed_logical,
                                implement_phases_done \cup {LastSegment(entry)})
             ELSE ScanCompleted_NoSkillMap(entries, i + 1,
                                completed_logical \cup {entry},
                                implement_phases_done)

\* _next_phase, the loop over phases_completed:
\* [completed_logical, implement_phases_done] after entries i..
RECURSIVE ScanCompleted(_, _, _, _)
ScanCompleted(entries, i, completed_logical, implement_phases_done) ==
    IF i > Len(entries)
    THEN [completed_logical |-> completed_logical,
          implement_phases_done |-> implement_phases_done]
    ELSE LET entry == entries[i]
         IN  IF StartsWithImplementPhase(entry)
             THEN ScanCompleted(entries, i + 1, completed_logical,
                                implement_phases_done \cup {LastSegment(entry)})
             ELSE IF entry = <<"implement">>
             THEN ScanCompleted(entries, i + 1,
                                completed_logical \cup { <<"implement">> },
                                implement_phases_done)
             ELSE IF entry \in SkillKeys
             THEN ScanCompleted(entries, i + 1,
                                completed_logical \cup {_SKILL_TO_PHASE(entry)},
                                implement_phases_done)
             ELSE ScanCompleted(entries, i + 1,
                                completed_logical \cup {entry},
                                implement_phases_done)

\* _next_phase, the final loop: first phase not completed, else "done"
RECURSIVE FirstNotCompleted(_, _, _)
FirstNotCompleted(phases, i, completed_logical) ==
    IF i > Len(phases) THEN <<"done">>
    ELSE IF phases[i] \notin completed_logical THEN phases[i]
    ELSE FirstNotCompleted(phases, i + 1, completed_logical)

\* completed_logical_of without the total_phases > 0 test
completed_logical_of_NoPositiveTest(m) ==
    LET scan == ScanCompleted(m.phases_completed, 1, {}, {})
        total_phases == TotalOf(m)
    IN  IF Cardinality(scan.implement_phases_done) >= total_phases
        THEN scan.completed_logical \cup { <<"implement">> }
        ELSE scan.completed_logical

\* completed_logical_of with > in place of >=
completed_logical_of_Strict(m) ==
    LET scan == ScanCompleted(m.phases_completed, 1, {}, {})
        total_phases == TotalOf(m)
    IN  IF total_phases > 0
           /\ Cardinality(scan.implement_phases_done) > total_phases
        THEN scan.completed_logical \cup { <<"implement">> }
        ELSE scan.completed_logical

\* the logical completed set _next_phase works with
completed_logical_of(m) ==
    LET scan == ScanCompleted(m.phases_completed, 1, {}, {})
        total_phases == TotalOf(m)
    IN  IF total_phases > 0
           /\ Cardinality(scan.implement_phases_done) >= total_phases
        THEN scan.completed_logical \cup { <<"implement">> }
        ELSE scan.completed_logical

_next_phase(m) == FirstNotCompleted(m.phases, 1, completed_logical_of(m))

\* the key complete_skill records
SkillKey(skill_name, phase) ==
    IF phase.given /\ phase.n # 0
    THEN skill_name \o <<"phase", Str(phase.n)>>
    ELSE skill_name

\* Completed with current_phase computed before the key is appended
Completed_NextBeforeAppend(m, key) ==
    LET appended == IF key \in Range(m.phases_completed) THEN m
                    ELSE [m EXCEPT !.phases_completed = Append(@, key)]
    IN  [appended EXCEPT !.current_phase = _next_phase(m),
                         !.updated_at = TRUE]

\* Completed keeping only the key just recorded
Completed_Forget(m, key) ==
    LET appended == [m EXCEPT !.phases_completed = <<key>>]
    IN  [appended EXCEPT !.current_phase = _next_phase(appended),
                         !.updated_at = TRUE]

\* the manifest after appending key (when new) and recomputing current_phase
Completed(m, key) ==
    LET appended == IF key \in Range(m.phases_completed) THEN m
                    ELSE [m EXCEPT !.phases_completed = Append(@, key)]
    IN  [appended EXCEPT !.current_phase = _next_phase(appended),
                         !.updated_at = TRUE]

\* complete_skill(skill_name, phase)
complete_skill(skill_name, phase) ==
    LET key == SkillKey(skill_name, phase)
    IN  /\ key \in Range(manifest.phases_completed)
           \/ Len(manifest.phases_completed) < MaxCompleted
        /\ manifest' = Completed(manifest, key)
        /\ context_md' = manifest'
        /\ UNCHANGED <<depVars, cliVars, peerVars, runVars>>

\* complete_phase(phase)
complete_phase(phase) ==
    LET phase_name == <<"implement", "phase", Str(phase)>>
    IN  /\ phase_name \in Range(manifest.phases_completed)
           \/ Len(manifest.phases_completed) < MaxCompleted
        /\ manifest' = Completed(manifest, phase_name)
        /\ context_md' = manifest'
        /\ UNCHANGED <<depVars, cliVars, peerVars, runVars>>

CompleteSkill ==
    \E skill_name \in SkillNames, phase \in PhaseArgs :
        /\ phase.given => skill_name \in PhasedSkillNames
        /\ complete_skill(skill_name, phase)

CompletePhase == \E phase \in 0..MaxPhaseNum : complete_phase(phase)

\* entry.startswith("implement")
StartsWithImplement(entry) == Len(entry) >= 1 /\ entry[1] = "implement"

\* _completed_logical_phases(manifest): the set print_status marks done
_completed_logical_phases(m) ==
    {IF StartsWithImplement(entry) THEN <<"implement">>
     ELSE IF entry \in SkillKeys THEN _SKILL_TO_PHASE(entry)
     ELSE entry : entry \in Range(m.phases_completed)}

\* print_status, the table: one row per phase, done / current / pending
print_status ==
    LET completed == _completed_logical_phases(manifest)
        rows == [i \in DOMAIN manifest.phases |->
                    IF manifest.phases[i] \in completed THEN "done"
                    ELSE IF manifest.phases[i] = manifest.current_phase
                    THEN "current" ELSE "pending"]
    IN  /\ result' = [NoResult EXCEPT !.op = "print_status", !.value = rows]
        /\ UNCHANGED <<file, cache, analyzer>>
        /\ UNCHANGED <<ctxVars, cliVars, peerVars, runVars>>

PrintStatus == print_status

\* ---------------------------------------------------------------------
\* Specifications
\* ---------------------------------------------------------------------

\* the manifest written at bootstrap; total_implement_phases is either
\* absent or set by hand to a small number
InitManifests ==
    {[phases |-> Phases, phases_completed |-> <<>>,
      current_phase |-> <<"research">>, total_implement_phases |-> t,
      updated_at |-> FALSE] :
        t \in {NoTotal} \cup {[set |-> TRUE, value |-> k] : k \in 0..MaxTotal}}

InitDeps ==
    /\ file = <<>>
    /\ cache = [loaded |-> FALSE, modules |-> <<>>]
    /\ analyzer = NoAnalyzer
    /\ result = NoResult

InitCtx ==
    /\ manifest \in InitManifests
    /\ context_md = manifest

\* ---------------------------------------------------------------------
\* cli: vibecraft integrate analyze / integrate build
\* ---------------------------------------------------------------------

\* no integrate command has run
NoCli ==
    [cmd |-> "none", modules |-> <<>>, validate |-> "none", errors |-> <<>>,
     build_order_called |-> FALSE, build_order |-> <<>>,
     order_shown |-> FALSE, build_project_called |-> FALSE,
     aborted |-> FALSE]

\* integrate_analyze going on to get_build_order whatever validation raised
integrate_analyze_NoReturn ==
    LET modules == file
        G == _build_graph(modules)
        v == validate_dependencies(modules, G)
        o == get_build_order(G)
        ran == [NoCli EXCEPT !.cmd = "analyze", !.modules = modules]
    IN  /\ cli' =
              IF modules = <<>> THEN ran
              ELSE IF o.raised # "none"
              THEN [ran EXCEPT !.validate = IF v.raised = "none" THEN "ok"
                                            ELSE v.raised,
                               !.build_order_called = TRUE,
                               !.aborted = TRUE]
              ELSE [ran EXCEPT !.validate = IF v.raised = "none" THEN "ok"
                                            ELSE v.raised,
                               !.build_order_called = TRUE,
                               !.build_order = o.order,
                               !.order_shown = TRUE]
        /\ UNCHANGED <<depVars, ctxVars, peerVars, runVars>>

\* integrate_analyze: a registry and an analyzer are constructed on the
\* file; no modules, or MissingDependencyError or CyclicDependencyError from
\* validate_dependencies(), end the command; otherwise get_build_order()
\* is called and the order printed; any other exception aborts
integrate_analyze ==
    LET modules == file
        G == _build_graph(modules)
        v == validate_dependencies(modules, G)
        o == get_build_order(G)
        ran == [NoCli EXCEPT !.cmd = "analyze", !.modules = modules]
    IN  /\ cli' =
              IF modules = <<>> THEN ran
              ELSE IF v.raised # "none"
              THEN [ran EXCEPT !.validate = v.raised]
              ELSE IF o.raised # "none"
              THEN [ran EXCEPT !.validate = "ok",
                               !.build_order_called = TRUE,
                               !.aborted = TRUE]
              ELSE [ran EXCEPT !.validate = "ok",
                               !.build_order_called = TRUE,
                               !.build_order = o.order,
                               !.order_shown = TRUE]
        /\ UNCHANGED <<depVars, ctxVars, peerVars, runVars>>

\* what manager.analyze_dependencies() hands back to integrate_build
ErrorLists ==
    {<<>>, << <<"Missing dependency">> >>,
     << <<"Circular dependencies detected">> >>}

\* integrate_build: errors from analyze_dependencies() abort the command
\* before build_project(); an exception out of build_project() aborts too
integrate_build(errors, build_raises) ==
    LET ran == [NoCli EXCEPT !.cmd = "build", !.errors = errors]
    IN  /\ cli' =
              IF errors # <<>> THEN [ran EXCEPT !.aborted = TRUE]
              ELSE [ran EXCEPT !.build_project_called = TRUE,
                               !.aborted = build_raises]
        /\ UNCHANGED <<depVars, ctxVars, peerVars, runVars>>

IntegrateAnalyze == integrate_analyze

IntegrateBuild ==
    \E errors \in ErrorLists, build_raises \in BOOLEAN :
        integrate_build(errors, build_raises)

\* ---------------------------------------------------------------------
\* SkillRunner: vibecraft run <skill> [--phase N]
\* ---------------------------------------------------------------------

\* most steps a skill is configured with
MaxSteps == 2

\* largest on_fail.max_retries a skill is configured with
MaxRetries == 1

\* most snapshot directories kept under .vibecraft/snapshots
MaxSnapshots == 2

\* skills run through SkillRunner, and the --phase each is run with
RunSkills == { <<"research">>, <<"implement">> }
RunPhases(skill_name) ==
    IF skill_name = <<"implement">>
    THEN {[given |-> TRUE, n |-> k] : k \in 0..1}
    ELSE {NoPhase}

\* the steps of a skill: for each whether its gate is human_approval
StepGates == UNION {[1..n -> BOOLEAN] : n \in 0..MaxSteps}

\* no run has started
NoRun ==
    [pc |-> "idle", skill |-> <<>>, phase |-> NoPhase, gates |-> <<>>,
     max_retries |-> 0, idx |-> 0, retry_count |-> 0, calls |-> 0,
     passed |-> 0, target |-> 0]

\* a run is waiting for the adapter or for an answer of the user
InProgress == {"call", "ask_retry", "gate"}

\* _snapshot(skill_name): docs/ (context.md with it) and manifest.json
\* copied into <timestamp>_<skill_name>; the timestamp counts seconds, so
\* a run of the same skill within the second of the previous snapshot
\* copies over that snapshot
_snapshot(skill_name, same_second) ==
    LET taken == [skill |-> skill_name, manifest |-> manifest,
                  context_md |-> context_md]
    IN  IF /\ same_second
           /\ snapshots # <<>>
           /\ snapshots[Len(snapshots)].skill = skill_name
        THEN snapshots' = [snapshots EXCEPT ![Len(snapshots)] = taken]
        ELSE snapshots' = Append(snapshots, taken)

\* run_loop going on to the next step whatever _run_step returned
run_loop_IgnoreFailure(r, ok) ==
    LET counted == [r EXCEPT !.passed = IF ok THEN @ + 1 ELSE @]
    IN  IF r.idx = Len(r.gates)
        THEN /\ run' = [counted EXCEPT !.pc = "done"]
             /\ manifest' = Completed(manifest, SkillKey(r.skill, r.phase))
             /\ context_md' = manifest'
        ELSE /\ run' = [counted EXCEPT !.pc = "call", !.idx = @ + 1,
                                       !.retry_count = 0, !.calls = 0]
             /\ UNCHANGED ctxVars

\* run, the for loop once _run_step returned ok for step r.idx: abort on
\* False, the next step on True, complete_skill after the last step
run_loop(r, ok) ==
    IF ~ok
    THEN /\ run' = [r EXCEPT !.pc = "aborted"]
         /\ UNCHANGED ctxVars
    ELSE IF r.idx = Len(r.gates)
    THEN /\ run' = [r EXCEPT !.pc = "done", !.passed = @ + 1]
         /\ manifest' = Completed(manifest, SkillKey(r.skill, r.phase))
         /\ context_md' = manifest'
    ELSE /\ run' = [r EXCEPT !.pc = "call", !.idx = @ + 1, !.passed = @ + 1,
                             !.retry_count = 0, !.calls = 0]
         /\ UNCHANGED ctxVars

\* run(skill_name, phase) up to the first adapter call: the snapshot, then
\* the first step, or complete_skill at once for a skill without steps
start_run(skill_name, phase, gates, max_retries, same_second) ==
    LET r == [NoRun EXCEPT !.skill = skill_name, !.phase = phase,
                           !.gates = gates, !.max_retries = max_retries]
    IN  /\ _snapshot(skill_name, same_second)
        /\ IF gates = <<>>
           THEN /\ run' = [r EXCEPT !.pc = "done"]
                /\ manifest' = Completed(manifest, SkillKey(skill_name, phase))
                /\ context_md' = manifest'
           ELSE /\ run' = [r EXCEPT !.pc = "call", !.idx = 1]
                /\ UNCHANGED ctxVars
        /\ UNCHANGED <<depVars, cliVars, peerVars>>

\* _run_step: adapter.call(prompt) raises RuntimeError or returns; an
\* error goes to _handle_error, a response to the gate when the step has one
_run_step(raises) ==
    LET r == [run EXCEPT !.calls = @ + 1]
    IN  /\ IF raises
           THEN IF r.retry_count >= r.max_retries
                THEN run_loop(r, FALSE)
                ELSE /\ run' = [r EXCEPT !.pc = "ask_retry"]
                     /\ UNCHANGED ctxVars
           ELSE IF r.gates[r.idx]
                THEN /\ run' = [r EXCEPT !.pc = "gate"]
                     /\ UNCHANGED ctxVars
                ELSE run_loop(r, TRUE)
        /\ UNCHANGED <<depVars, cliVars, peerVars, snapshots>>

\* _handle_error, the answer to "Retry? [y/n]"
_handle_error(retry) ==
    /\ IF retry
       THEN /\ run' = [run EXCEPT !.pc = "call", !.retry_count = @ + 1]
            /\ UNCHANGED ctxVars
       ELSE run_loop(run, FALSE)
    /\ UNCHANGED <<depVars, cliVars, peerVars, snapshots>>

\* _human_gate re-running the step on every "r"
_human_gate_NoLimit(decision, force) ==
    /\ IF decision \in {"y", "e"} THEN run_loop(run, TRUE)
       ELSE IF decision \in {"n", "interrupt"} THEN run_loop(run, FALSE)
       ELSE /\ run' = [run EXCEPT !.pc = "call", !.retry_count = @ + 1]
            /\ UNCHANGED ctxVars
    /\ UNCHANGED <<depVars, cliVars, peerVars, snapshots>>

\* _human_gate, the decision [y/n/e/r] (or Ctrl+C) and, at max_retries,
\* the answer to "Force approve anyway?"
_human_gate(decision, force) ==
    /\ IF decision \in {"y", "e"} THEN run_loop(run, TRUE)
       ELSE IF decision \in {"n", "interrupt"} THEN run_loop(run, FALSE)
       ELSE IF run.retry_count >= run.max_retries THEN run_loop(run, force)
       ELSE /\ run' = [run EXCEPT !.pc = "call", !.retry_count = @ + 1]
            /\ UNCHANGED ctxVars
    /\ UNCHANGED <<depVars, cliVars, peerVars, snapshots>>

\* RollbackManager.rollback restoring docs/ and src/ only
rollback_NoManifest(target, confirm) ==
    /\ IF target >= Len(snapshots) \/ ~confirm
       THEN /\ run' = [NoRun EXCEPT !.pc = "rollback_cancelled"]
            /\ UNCHANGED ctxVars
       ELSE LET snap == snapshots[Len(snapshots) - target]
            IN  /\ run' = [NoRun EXCEPT !.pc = "rolled_back", !.target = target]
                /\ context_md' = snap.context_md
                /\ manifest' = manifest
    /\ UNCHANGED <<depVars, cliVars, peerVars, snapshots>>

\* RollbackManager.rollback(target): target counts back from the snapshot
\* taken last (0, also the default); the confirmed rollback copies docs/
\* and manifest.json back
rollback(target, confirm) ==
    /\ IF target >= Len(snapshots) \/ ~confirm
       THEN /\ run' = [NoRun EXCEPT !.pc = "rollback_cancelled"]
            /\ UNCHANGED ctxVars
       ELSE LET snap == snapshots[Len(snapshots) - target]
            IN  /\ run' = [NoRun EXCEPT !.pc = "rolled_back", !.target = target]
                /\ context_md' = snap.context_md
                /\ manifest' = snap.manifest
    /\ UNCHANGED <<depVars, cliVars, peerVars, snapshots>>

StartRun ==
    \E skill_name \in RunSkills, gates \in StepGates,
       max_retries \in 0..MaxRetries, same_second \in BOOLEAN :
        \E phase \in RunPhases(skill_name) :
            /\ run.pc \notin InProgress
            /\ Len(snapshots) < MaxSnapshots
            /\ start_run(skill_name, phase, gates, max_retries, same_second)

AdapterCall == \E raises \in BOOLEAN : run.pc = "call" /\ _run_step(raises)

RetryAnswer == \E retry \in BOOLEAN : run.pc = "ask_retry" /\ _handle_error(retry)

GateDecision ==
    \E decision \in {"y", "n", "e", "r", "interrupt"}, force \in BOOLEAN :
        run.pc = "gate" /\ _human_gate(decision, force)

Rollback ==
    \E target \in 0..MaxSnapshots, confirm \in BOOLEAN :
        /\ run.pc \notin InProgress
        /\ snapshots # <<>>
        /\ rollback(target, confirm)

InitCli == cli = NoCli

InitPeer == peer = NoPeer

InitRun == run = NoRun /\ snapshots = <<>>

Init == InitDeps /\ InitCtx /\ InitCli /\ InitPeer /\ InitRun

\* the registry and the dependency analyzer
NextDeps ==
    \/ AddModule
    \/ NewAnalyzer
    \/ ValidateDependencies
    \/ HasCycle
    \/ GetBuildOrder

\* the analyzer does not read the manifest: it starts from the bootstrap
\* manifest without total_implement_phases
InitForDeps == Init /\ manifest.total_implement_phases = NoTotal

SpecDeps == InitForDeps /\ [][NextDeps]_vars

\* largest sub-phase number ModularRunner records for a module
MaxRegPhase == 1

\* the key ModularRunner records: f"implement_phase_{phase}"
PhaseKey(phase) == <<"implement", "phase", Str(phase)>>

\* ModularRunner._update_module_phase(module, phase): a registry is
\* constructed on the file, the record get_by_name returns is the cached
\* one, the key is appended to it in place, and
\* update_module(module, phases_completed=...) then writes
_update_module_phase(module, phase) ==
    LET i == FindIndex(file, module, 1)
    IN  /\ IF i = 0
           THEN /\ cache' = Loaded(file)
                /\ file' = file
           ELSE LET done == file[i].phases_completed
                    appended == IF PhaseKey(phase) \in Range(done) THEN done
                                ELSE Append(done, PhaseKey(phase))
                IN  _write([file EXCEPT ![i] =
                              ApplyUpdates(@, [phases_completed |-> appended])])
        /\ result' = Called("_update_module_phase", module)
        /\ UNCHANGED <<analyzer>>
        /\ UNCHANGED <<ctxVars, cliVars, peerVars, runVars>>

UpdateModulePhase ==
    \E module \in RegNames, phase \in 1..MaxRegPhase :
        _update_module_phase(module, phase)

\* the registry used through one instance, nothing else writing the file
NextReg ==
    \/ AddModuleObject
    \/ UpdateModuleObject
    \/ UpdateModuleKwargs
    \/ RemoveModule
    \/ InvalidateCache

SpecReg == InitForDeps /\ [][NextReg]_vars

\* the registry used through one instance and by the runner's phase
\* bookkeeping, nothing else writing the file
NextRun ==
    \/ AddModuleObject
    \/ UpdateModuleObject
    \/ UpdateModuleKwargs
    \/ RemoveModule
    \/ UpdateModulePhase
    \/ InvalidateCache

SpecRun == InitForDeps /\ [][NextRun]_vars

\* the registry read through one instance while the file is also written
\* from outside
NextCache ==
    \/ AddDefaultModule
    \/ GetAll
    \/ GetAllModules
    \/ GetByName
    \/ HasModule
    \/ InvalidateCache
    \/ ExternalWrite

SpecCache == InitForDeps /\ [][NextCache]_vars

\* the registry filled module by module and the integrate commands run
\* on its file
NextCli ==
    \/ AddModule
    \/ IntegrateAnalyze
    \/ IntegrateBuild

SpecCli == InitForDeps /\ [][NextCli]_vars

\* the registry written through update_module(name, status=...) and by
\* the runner, and rebuilt into Module objects
NextValid ==
    \/ AddDefaultModule
    \/ UpdateModuleStatus
    \/ UpdateModulePhase
    \/ RemoveModule
    \/ GetAllModules

SpecValid == InitForDeps /\ [][NextValid]_vars

\* two registry instances on one file
NextPeers ==
    \/ AddDefaultModule
    \/ GetAll
    \/ PeerGetAll
    \/ PeerAddModule

SpecPeers == InitForDeps /\ [][NextPeers]_vars

\* skill runs and rollbacks
NextSkill ==
    \/ StartRun
    \/ AdapterCall
    \/ RetryAnswer
    \/ GateDecision
    \/ Rollback

SpecSkill == InitForDeps /\ [][NextSkill]_vars

\* the manifest phase tracker and the status table shown for it
NextStatus ==
    \/ CompleteSkill
    \/ CompletePhase
    \/ PrintStatus

SpecStatus == InitForDeps /\ [][NextStatus]_vars

\* the manifest phase tracker
NextCtx ==
    \/ CompleteSkill
    \/ CompletePhase

SpecCtx == Init /\ [][NextCtx]_vars

\* ---------------------------------------------------------------------
\* Vocabulary of the properties
\* ---------------------------------------------------------------------

NamesOf(mods) == {mods[i].name : i \in DOMAIN mods}

DepsOf(mods) == UNION {Range(mods[i].dependencies) : i \in DOMAIN mods}

\* the declared edges dependency -> dependent
DeclaredEdges(mods) ==
    UNION {{<<mods[i].dependencies[j], mods[i].name>> :
                j \in DOMAIN mods[i].dependencies} : i \in DOMAIN mods}

Successors(E, S) == {e[2] : e \in {d \in E : d[1] \in S}}

RECURSIVE Closure(_, _)
Closure(E, S) ==
    LET T == S \cup Successors(E, S)
    IN  IF T = S THEN S ELSE Closure(E, T)

\* some name reaches itself along one or more declared edges
HasDirectedCycle(mods) ==
    \E n \in NamesOf(mods) \cup DepsOf(mods) :
        n \in Closure(DeclaredEdges(mods), Successors(DeclaredEdges(mods), {n}))

\* some dependencies list mentions a name no module carries
MissingDeclared(mods) == \E d \in DepsOf(mods) : d \notin NamesOf(mods)

IsPermutationOf(seq, S) == Len(seq) = Cardinality(S) /\ Range(seq) = S

StrictlyBefore(seq, a, b) ==
    \E i, j \in DOMAIN seq : i < j /\ seq[i] = a /\ seq[j] = b

DepsPrecede(seq, mods) ==
    \A i \in DOMAIN mods : \A d \in Range(mods[i].dependencies) :
        StrictlyBefore(seq, d, mods[i].name)

BuildOrderReturned == result.op = "get_build_order" /\ result.raised = "none"

\* ---------------------------------------------------------------------
\* C1  get_build_order on an acyclic graph
\* ---------------------------------------------------------------------

\* C1 as stated: on an acyclic graph get_build_order() returns a
\* permutation of the module names with every dependency before its dependent.
C1_AsStated ==
    (result.op = "get_build_order" /\ ~HasDirectedCycle(analyzer.modules))
        => /\ result.raised = "none"
           /\ IsPermutationOf(result.order, NamesOf(analyzer.modules))
           /\ DepsPrecede(result.order, analyzer.modules)

\* C1 (amended): on an acyclic graph get_build_order() returns a permutation
\* of the module names together with the undeclared dependency names, each
\* exactly once, with every dependency strictly before its dependent.
C1_BuildOrderIsTopological ==
    (result.op = "get_build_order" /\ ~HasDirectedCycle(analyzer.modules))
        => /\ result.raised = "none"
           /\ IsPermutationOf(result.order,
                              NamesOf(analyzer.modules) \cup DepsOf(analyzer.modules))
           /\ DepsPrecede(result.order, analyzer.modules)

\* a returned order of three modules, one with two dependencies and the
\* registry order not already a build order
C1_Witness ==
    /\ BuildOrderReturned
    /\ Len(analyzer.modules) = 3
    /\ \E i \in DOMAIN analyzer.modules : Len(analyzer.modules[i].dependencies) = 2
    /\ result.order # [i \in DOMAIN analyzer.modules |-> analyzer.modules[i].name]

\* ---------------------------------------------------------------------
\* C2  has_cycle
\* ---------------------------------------------------------------------

\* C2: has_cycle() returns true exactly when the graph of the modules the
\* analyzer was built from has a directed cycle (a self-dependency
\* included), and it returns without raising.
C2_HasCycleIffCycle ==
    result.op = "has_cycle"
        => /\ result.raised = "none"
           /\ result.cycle <=> HasDirectedCycle(analyzer.modules)

\* has_cycle() answered true for a module that depends on itself
C2_Witness ==
    /\ result.op = "has_cycle"
    /\ result.cycle
    /\ \E i \in DOMAIN analyzer.modules :
           analyzer.modules[i].name \in Range(analyzer.modules[i].dependencies)

\* ---------------------------------------------------------------------
\* C3  get_build_order on a cyclic graph
\* ---------------------------------------------------------------------

\* C3: on a graph with a cycle get_build_order() raises
\* CyclicDependencyError and returns no order at all.
C3_CycleRaises ==
    (result.op = "get_build_order" /\ HasDirectedCycle(analyzer.modules))
        => /\ result.raised = "CyclicDependencyError"
           /\ result.order = <<>>

\* the error was raised although one of three modules is on no cycle
C3_Witness ==
    /\ result.op = "get_build_order"
    /\ result.raised = "CyclicDependencyError"
    /\ Len(analyzer.modules) = 3
    /\ \E i \in DOMAIN analyzer.modules :
           /\ analyzer.modules[i].dependencies = <<>>
           /\ analyzer.modules[i].name \notin DepsOf(analyzer.modules)

\* ---------------------------------------------------------------------
\* C4  validate_dependencies and missing dependencies
\* ---------------------------------------------------------------------

\* C4: validate_dependencies() raises MissingDependencyError exactly when
\* some dependencies list names no module of the registry, and the message
\* holds the declaring module's name and the missing name.
C4_MissingIffUndeclared ==
    result.op = "validate_dependencies"
        => /\ result.raised = "MissingDependencyError" <=> MissingDeclared(Read)
           /\ result.raised = "MissingDependencyError"
                => \E i \in DOMAIN Read : \E d \in Range(Read[i].dependencies) :
                      /\ d \notin NamesOf(Read)
                      /\ Read[i].name \in Range(result.message)
                      /\ d \in Range(result.message)

\* the error was raised for a registry of several modules
C4_Witness ==
    /\ result.op = "validate_dependencies"
    /\ result.raised = "MissingDependencyError"
    /\ Len(Read) >= 2
    /\ "missing" \in Range(result.message)

\* ---------------------------------------------------------------------
\* C5  missing dependency reported before a cycle
\* ---------------------------------------------------------------------

\* C5: when the registry has both an undeclared dependency and a cycle,
\* validate_dependencies() raises MissingDependencyError, not
\* CyclicDependencyError.
C5_MissingBeforeCycle ==
    (/\ result.op = "validate_dependencies"
     /\ MissingDeclared(Read)
     /\ HasDirectedCycle(Read) \/ HasDirectedCycle(analyzer.modules))
        => result.raised = "MissingDependencyError"

\* both defects are present in the registry the analyzer was built from
C5_Witness ==
    /\ result.op = "validate_dependencies"
    /\ result.raised = "MissingDependencyError"
    /\ analyzer.modules = Read
    /\ MissingDeclared(Read)
    /\ HasDirectedCycle(Read)

\* ---------------------------------------------------------------------
\* C6  validate_dependencies and cycles
\* ---------------------------------------------------------------------

\* C6: when every declared dependency names a module,
\* validate_dependencies() raises CyclicDependencyError exactly when
\* has_cycle() is true and returns normally exactly when the graph is acyclic.
C6_CyclicIffHasCycle ==
    (result.op = "validate_dependencies" /\ ~MissingDeclared(Read))
        => /\ result.raised = "CyclicDependencyError"
                <=> has_cycle(analyzer.graph)
           /\ result.raised = "none"
                <=> ~HasDirectedCycle(analyzer.modules)

\* the cycle error was raised with every dependency declared
C6_Witness ==
    /\ result.op = "validate_dependencies"
    /\ result.raised = "CyclicDependencyError"
    /\ ~MissingDeclared(Read)
    /\ Len(Read) = 3

\* ---------------------------------------------------------------------
\* Vocabulary of the phase properties
\* ---------------------------------------------------------------------

Entries(m) == Range(m.phases_completed)

SubPhaseMarkers(m) == {e \in Entries(m) : StartsWithImplementPhase(e)}

\* the distinct sub-phase numbers recorded
SubPhaseNumbers(m) == {LastSegment(e) : e \in SubPhaseMarkers(m)}

\* implement counts as complete through the sub-phase threshold
ThresholdReached(m) ==
    /\ m.total_implement_phases.set
    /\ m.total_implement_phases.value > 0
    /\ Cardinality(SubPhaseNumbers(m)) >= m.total_implement_phases.value

\* the logical phase a marker stands for, sub-phase markers aside
PhaseOfMarker(e) ==
    CASE e = <<"research", "skill">> -> <<"research">>
      [] e = <<"design", "skill">>   -> <<"design">>
      [] e = <<"plan", "skill">>     -> <<"plan">>
      [] e = <<"review", "skill">>   -> <<"review">>
      [] OTHER                       -> e

LogicalCompleted(m) ==
    {PhaseOfMarker(e) : e \in Entries(m) \ SubPhaseMarkers(m)}
        \cup (IF ThresholdReached(m) THEN { <<"implement">> } ELSE {})

\* a completion call has been made on the manifest
CompletionRecorded == manifest.updated_at

\* ---------------------------------------------------------------------
\* C7  _next_phase
\* ---------------------------------------------------------------------

\* C7: _next_phase returns the first entry of phases outside the logical
\* completed set, and "done" when no entry is outside it.
C7_NextPhaseIsFirstOpen ==
    LET open == {i \in DOMAIN manifest.phases :
                    manifest.phases[i] \notin LogicalCompleted(manifest)}
    IN  IF open = {}
        THEN _next_phase(manifest) = <<"done">>
        ELSE \E i \in open :
                /\ \A j \in open : i <= j
                /\ _next_phase(manifest) = manifest.phases[i]

\* every phase is complete through skill markers and an explicit implement
C7_Witness ==
    /\ CompletionRecorded
    /\ manifest.current_phase = <<"done">>
    /\ SkillKeys \subseteq Entries(manifest)

\* ---------------------------------------------------------------------
\* C8  implement without a total
\* ---------------------------------------------------------------------

\* C8: with total_implement_phases absent or 0 and no explicit "implement"
\* entry, implement is never complete: _next_phase returns neither "review"
\* nor "done", and returns "implement" once research, design and plan are
\* complete.
C8_NoTotalNeverCompletes ==
    (TotalOf(manifest) = 0 /\ <<"implement">> \notin Entries(manifest))
        => /\ _next_phase(manifest) \notin { <<"review">>, <<"done">> }
           /\ { <<"research">>, <<"design">>, <<"plan">> }
                  \subseteq LogicalCompleted(manifest)
                => _next_phase(manifest) = <<"implement">>

\* research, design and plan are complete and two sub-phases are recorded
C8_Witness ==
    /\ CompletionRecorded
    /\ TotalOf(manifest) = 0
    /\ <<"implement">> \notin Entries(manifest)
    /\ Cardinality(SubPhaseNumbers(manifest)) >= 2
    /\ manifest.current_phase = <<"implement">>
    /\ { <<"research">>, <<"design">>, <<"plan">> }
           \subseteq LogicalCompleted(manifest)

\* ---------------------------------------------------------------------
\* C9  implement through the sub-phase threshold
\* ---------------------------------------------------------------------

\* C9: with no explicit "implement" entry, implement is treated as complete
\* exactly when total_implement_phases is a positive T and at least T
\* distinct sub-phase numbers are recorded.
C9_ThresholdCompletes ==
    <<"implement">> \notin Entries(manifest)
        => (<<"implement">> \in completed_logical_of(manifest)
                <=> ThresholdReached(manifest))

\* the threshold of two sub-phases is met exactly, and review is next
C9_Witness ==
    /\ CompletionRecorded
    /\ <<"implement">> \notin Entries(manifest)
    /\ manifest.total_implement_phases.value = 2
    /\ Cardinality(SubPhaseNumbers(manifest)) = 2
    /\ manifest.current_phase = <<"review">>

\* ---------------------------------------------------------------------
\* C10  current_phase is persisted in step with phases_completed
\* ---------------------------------------------------------------------

\* C10: after a complete_skill or complete_phase call the stored
\* current_phase is _next_phase of the stored manifest.
C10_CurrentPhaseInStep ==
    CompletionRecorded => manifest.current_phase = _next_phase(manifest)

\* a completion moved current_phase off its bootstrap value
C10_Witness ==
    /\ CompletionRecorded
    /\ manifest.current_phase = <<"design">>
    /\ manifest.phases_completed = << <<"research", "skill">> >>

\* ---------------------------------------------------------------------
\* Vocabulary of the registry properties
\* ---------------------------------------------------------------------

NameRecorded(mods, name) == \E i \in DOMAIN mods : mods[i].name = name

CountNamed(mods, name) == Cardinality({i \in DOMAIN mods : mods[i].name = name})

\* position of the first record called name
FirstNamed(mods, name) ==
    CHOOSE i \in DOMAIN mods :
        /\ mods[i].name = name
        /\ \A j \in 1..(i - 1) : mods[j].name # name

\* what the instance holds is what it held before the call
RegistryUntouched ==
    /\ Read' = Read
    /\ file' = file
    /\ cache.loaded => cache' = cache

\* the step is a call of that operation for a name that has a record
CalledOnRecorded(op) == result'.op = op /\ NameRecorded(Read, result'.name)

\* the step is a call of one of the operations for a name without a record
CalledOnMissing(ops) == result'.op \in ops /\ ~NameRecorded(Read, result'.name)

\* across the step the record of name keeps every field outside keys, and
\* every other record is as it was
OnlySpecifiedChanged(name, keys) ==
    LET i == FirstNamed(Read, name)
    IN  /\ Len(Read') = Len(Read)
        /\ \A j \in DOMAIN Read :
              IF j = i
              THEN \A f \in (DOMAIN Read[j]) \ keys : Read'[j][f] = Read[j][f]
              ELSE Read'[j] = Read[j]

\* across the step the record of module.name becomes the object's record,
\* given fields and defaults alike, and every other record is as it was
ReplacedByObject(kw, now) ==
    LET i == FirstNamed(Read, kw.name)
    IN  /\ Len(Read') = Len(Read)
        /\ \A j \in (DOMAIN Read) \ {i} : Read'[j] = Read[j]
        /\ \A f \in DOMAIN kw : Read'[i][f] = kw[f]
        /\ "status" \notin DOMAIN kw => Read'[i].status = "planned"
        /\ "created_at" \notin DOMAIN kw => Read'[i].created_at = now
        /\ Read'[i].dependencies = <<>>
        /\ Read'[i].phases_completed = <<>>

\* ---------------------------------------------------------------------
\* C11  add_module with a recorded name
\* ---------------------------------------------------------------------

\* C11 as stated: add_module with a name that already has a record does not
\* raise, leaves every record, the cache and the file as they were, and the
\* registry then holds exactly one record for that name.
C11_AsStated ==
    [][CalledOnRecorded("add_module")
          => /\ result'.raised = "none"
             /\ RegistryUntouched
             /\ CountNamed(Read', result'.name) = 1]_vars

\* ---------------------------------------------------------------------
\* C12  names are unique
\* ---------------------------------------------------------------------

\* C12: in every registry reachable by add_module, update_module (either
\* style) and remove_module no two records have the same name.
C12_NamesUnique ==
    \A i, j \in DOMAIN Read : i # j => Read[i].name # Read[j].name

\* ---------------------------------------------------------------------
\* C13  update_module changes the specified fields only
\* ---------------------------------------------------------------------

C20_CreatedAtKept ==
    [][(result'.op = "update_module" /\ result'.raised = "none")
          => /\ Len(Read') = Len(Read)
             /\ \A i \in DOMAIN Read :
                   Read'[i].created_at = Read[i].created_at]_vars

\* ---------------------------------------------------------------------
\* C15  reads are served from the cache
\* ---------------------------------------------------------------------

ReadOps == {"get_all", "get_by_name", "has_module", "get_all_modules"}

\* what a read has to serve: the cached list once data is loaded, the
\* file's list on a first read or on the first read after invalidate_cache()
Served == IF cache.loaded THEN cache.modules ELSE file

\* C15: once the instance has loaded its data, get_all, get_by_name,
\* has_module and get_all_modules answer from the cached contents whatever
\* has been written to the file from outside, until invalidate_cache(); the
\* first read after invalidate_cache() answers from the file.
C15_ReadsServeCache ==
    [][result'.op \in ReadOps
          => /\ result'.op \in {"get_all", "get_all_modules"}
                    => result'.value = Served
             /\ result'.op \in {"get_by_name", "has_module"}
                    => result'.found = NameRecorded(Served, result'.name)
             /\ (result'.op = "get_by_name" /\ result'.found)
                    => result'.value
                           = <<Served[FirstNamed(Served, result'.name)]>>]_vars

\* a read answered with the cached list while the file holds a record
\* written from outside
C15_Witness ==
    /\ result.op = "get_all"
    /\ cache.loaded
    /\ result.value = cache.modules
    /\ Len(file) > Len(cache.modules)

\* ---------------------------------------------------------------------
\* C17  build order with an undeclared dependency
\* ---------------------------------------------------------------------

OccursOnce(seq, a) == Cardinality({i \in DOMAIN seq : seq[i] = a}) = 1

\* the dependency names no module carries
UndeclaredNames(mods) == DepsOf(mods) \ NamesOf(mods)

\* C17: on an acyclic graph where some module depends on a name without a
\* module record, get_build_order() does not raise, and its order holds
\* every module name and every such name exactly once, each such name
\* before the modules that depend on it.
C17_UndeclaredNamesOrdered ==
    (/\ result.op = "get_build_order"
     /\ ~HasDirectedCycle(analyzer.modules)
     /\ UndeclaredNames(analyzer.modules) # {})
        => /\ result.raised = "none"
           /\ \A n \in NamesOf(analyzer.modules)
                           \cup UndeclaredNames(analyzer.modules) :
                 OccursOnce(result.order, n)
           /\ \A i \in DOMAIN analyzer.modules :
                 \A d \in Range(analyzer.modules[i].dependencies)
                              \cap UndeclaredNames(analyzer.modules) :
                     StrictlyBefore(result.order, d, analyzer.modules[i].name)

\* two modules depend on the same name without a record, and the order
\* returned starts with that name
C17_Witness ==
    /\ BuildOrderReturned
    /\ UndeclaredNames(analyzer.modules) = {"missing"}
    /\ Cardinality({i \in DOMAIN analyzer.modules :
                       "missing" \in Range(analyzer.modules[i].dependencies)}) = 2
    /\ result.order[1] = "missing"

\* ---------------------------------------------------------------------
\* C19  dependency errors halt the integrate commands
\* ---------------------------------------------------------------------

\* C19: in integrate analyze, get_build_order() is called and a build order
\* shown only after validate_dependencies() returned without raising, so
\* never on a registry with an undeclared dependency or a cycle; in
\* integrate build, build_project() is not called when
\* analyze_dependencies() reported errors.
C19_ErrorsHalt ==
    /\ (cli.build_order_called \/ cli.order_shown) => cli.validate = "ok"
    /\ (cli.cmd = "analyze"
        /\ (MissingDeclared(cli.modules) \/ HasDirectedCycle(cli.modules)))
           => /\ cli.validate \in {"MissingDependencyError", "CyclicDependencyError"}
              /\ ~cli.build_order_called
              /\ ~cli.order_shown
    /\ (cli.cmd = "build" /\ cli.errors # <<>>) => ~cli.build_project_called

\* integrate analyze ended on a cycle among two modules without asking for
\* a build order
C19_Witness ==
    /\ cli.cmd = "analyze"
    /\ Len(cli.modules) = 2
    /\ cli.validate = "CyclicDependencyError"
    /\ ~cli.build_order_called

\* ---------------------------------------------------------------------
\* C21  statuses stored in the registry
\* ---------------------------------------------------------------------

\* the four statuses of a module
StatusNames == {"planned", "in_progress", "completed", "blocked"}

\* C21: in every state reachable through add, update and remove, every
\* record's status is one of planned, in_progress, completed, blocked, and
\* get_all_modules() rebuilds the Module objects without raising.
C21_StatusesAllowed ==
    /\ \A i \in DOMAIN file : file[i].status \in StatusNames
    /\ result.op = "get_all_modules" => result.raised = "none"

\* ---------------------------------------------------------------------
\* C22  phases_completed of a module record
\* ---------------------------------------------------------------------

\* the entry is an integer: one segment, a decimal digit
IsSubPhaseNumber(e) == Len(e) = 1 /\ e[1] \in {Str(n) : n \in 0..9}

\* C22: in every reachable registry state, also after ModularRunner
\* recorded an implement sub-phase, each element of a record's
\* phases_completed is an integer sub-phase number.
C22_PhasesAreNumbers ==
    \A i \in DOMAIN file :
        \A e \in Range(file[i].phases_completed) : IsSubPhaseNumber(e)

\* ---------------------------------------------------------------------
\* C23  two registry instances on one file
\* ---------------------------------------------------------------------

\* the names one list records and the other does not
OnlyIn(mods, others) == NamesOf(mods) \ NamesOf(others)

\* C23: an instance that has loaded its cache writes, on add_module of a
\* new name, its own cached list plus the new record: the file ends with
\* the last writer's list, and a different module the other instance
\* added since the load is no longer in the file.
C23_LastWriterWins ==
    [][ /\ (/\ result'.op = "peer.add_module"
            /\ peer.loaded
            /\ result'.name \notin NamesOf(peer.modules))
           => /\ NamesOf(file') = NamesOf(peer.modules) \cup {result'.name}
              /\ file' = peer'.modules
              /\ \A n \in OnlyIn(file, peer.modules) \ {result'.name} :
                     n \notin NamesOf(file')
        /\ (/\ result'.op = "add_module"
            /\ cache.loaded
            /\ result'.name \notin NamesOf(cache.modules))
           => /\ NamesOf(file') = NamesOf(cache.modules) \cup {result'.name}
              /\ file' = cache'.modules
              /\ \A n \in OnlyIn(file, cache.modules) \ {result'.name} :
                     n \notin NamesOf(file')
      ]_vars

\* both instances have loaded, each added a different module, and the
\* file holds the second writer's module only
C23_Witness ==
    /\ cache.loaded
    /\ peer.loaded
    /\ result.op = "peer.add_module"
    /\ NamesOf(cache.modules) = {"auth"}
    /\ NamesOf(peer.modules) = {"api"}
    /\ NamesOf(file) = {"api"}

\* ---------------------------------------------------------------------
\* C24  the status display and _next_phase
\* ---------------------------------------------------------------------

\* C24: for every manifest, the set of logical phases print_status marks
\* done (_completed_logical_phases) equals the logical completed set
\* _next_phase computes, also for implement when only implement_phase_<N>
\* markers are recorded.
C24_DisplayMatchesNext ==
    _completed_logical_phases(manifest) = completed_logical_of(manifest)

\* ---------------------------------------------------------------------
\* C25  the key complete_skill records for a phase number
\* ---------------------------------------------------------------------

\* "<skill_name>_phase_<n>"
PhaseMarker(skill_name, n) == skill_name \o <<"phase", Str(n)>>

\* C25: complete_skill(skill_name, phase) with any integer phase, 0
\* included, records "<skill_name>_phase_<phase>" and does not record the
\* bare skill name; with total_implement_phases absent the call does not
\* make implement a completed phase.
C25_MarkerNotBareName ==
    [][ \A skill_name \in PhasedSkillNames, n \in 0..MaxPhaseNum :
            complete_skill(skill_name, [given |-> TRUE, n |-> n])
               => /\ PhaseMarker(skill_name, n) \in Range(manifest'.phases_completed)
                  /\ skill_name \in Range(manifest'.phases_completed)
                        => skill_name \in Range(manifest.phases_completed)
                  /\ (/\ ~manifest.total_implement_phases.set
                      /\ <<"implement">> \notin completed_logical_of(manifest))
                        => <<"implement">> \notin completed_logical_of(manifest')
      ]_vars

\* ---------------------------------------------------------------------
\* C26  current_phase only moves forward
\* ---------------------------------------------------------------------

\* where a value of current_phase stands in the phase list, "done" after
\* the last phase
PositionOf(phase, phases) ==
    IF phase = <<"done">> THEN Len(phases) + 1
    ELSE CHOOSE i \in DOMAIN phases : phases[i] = phase

Progress(m) == <<m.phases_completed, m.current_phase>>

\* C27: SkillRunner.run records complete_skill only after every step, in
\* order, returned success; as soon as one step is rejected or aborted no
\* later step runs, and the manifest's phases_completed and current_phase
\* are left as they were.
C27_CompleteAfterAllSteps ==
    [][ /\ run'.pc = "done" => run'.passed = Len(run'.gates)
        /\ run'.pc \in InProgress => run'.idx = run'.passed + 1
        /\ (run.pc \in InProgress /\ run'.pc # "done")
              => Progress(manifest') = Progress(manifest)
        /\ (run.pc \in InProgress /\ run'.pc = "aborted")
              => /\ run'.passed < Len(run'.gates)
                 /\ run'.idx = run.idx
        /\ run.pc = "aborted"
              => \/ run'.pc \notin InProgress
                 \/ run'.idx = 1 /\ run'.calls = 0
      ]_vars

\* a run with two steps whose first step passed and whose second step was
\* rejected at the gate
C27_WitnessAborted ==
    /\ run.pc = "aborted"
    /\ Len(run.gates) = 2
    /\ run.passed = 1
    /\ run.idx = 2
    /\ run.gates[2]
    /\ manifest.phases_completed = <<>>

\* ---------------------------------------------------------------------
\* C28  adapter calls per step
\* ---------------------------------------------------------------------

\* C28: for one step the adapter is called at most max_retries + 1 times,
\* over any interleaving of adapter errors answered "retry" and gate
\* answers "retry"; with retry_count at max_retries an adapter error ends
\* the step and a gate "retry" does not run it again.
C28_CallsBounded ==
    /\ run.calls <= run.max_retries + 1
    /\ run.retry_count <= run.max_retries
    /\ run.pc = "ask_retry" => run.retry_count < run.max_retries

\* the step was run max_retries + 1 times, once after an adapter error
\* and a retry, and is at the gate again
C28_Witness ==
    /\ run.pc = "gate"
    /\ run.max_retries = MaxRetries
    /\ run.retry_count = run.max_retries
    /\ run.calls = run.max_retries + 1

\* ---------------------------------------------------------------------
\* C29  rollback to the snapshot of a run
\* ---------------------------------------------------------------------

\* the snapshot a rollback target names, counted from the latest
Targeted(target) == snapshots[Len(snapshots) - target]

C30_SameModulesEvaluated ==
    /\ result.op = "validate_dependencies"
          => /\ result.raised = "MissingDependencyError"
                   <=> MissingDeclared(analyzer.modules)
             /\ result.raised = "CyclicDependencyError"
                   <=> /\ ~MissingDeclared(analyzer.modules)
                       /\ HasDirectedCycle(analyzer.modules)
    /\ result.op = "has_cycle"
          => (result.cycle <=> HasDirectedCycle(analyzer.modules))
    /\ BuildOrderReturned
          => IsPermutationOf(result.order,
                 NamesOf(analyzer.modules) \cup DepsOf(analyzer.modules))

====
